---- MODULE Spec2Model ----
(***************************************************************************)
(* A model of static/js/main.js: the URL validator, the two submit         *)
(* handlers, the alert presenter and its timers, the clipboard helper,     *)
(* the two formatters and the progress animation.                          *)
(*                                                                         *)
(* JavaScript strings are sequences of one-character strings.              *)
(***************************************************************************)
EXTENDS Integers, Sequences, FiniteSets

VARIABLES
    \* pure functions
    call,            \* the call under evaluation: [fn, arg, ...]
    ret,             \* its return value, NoValue until it has returned
    \* clock
    now,             \* milliseconds, as read by performance.now() and the timers
    \* document
    hasContainer,    \* document.querySelector('.container') finds an element
    alerts,          \* every .alert node, in order of creation; the index is its identity;
                     \* stamp is the time of the script's last step on the node
    containerKids,   \* the alert nodes that are children of .container, first child first
    timers,          \* pending setTimeout callbacks: [kind, alert, due]
    loaded,          \* DOMContentLoaded has been handled
    \* forms
    hasForm,         \* form[action*="analyze"] exists
    hasUrlInput,     \* #url exists
    hasDownloadForm, \* form[action*="start_download"] exists
    analyzeListener, \* the submit listener of the analyze form is registered
    downloadListener,\* the submit listener of the download form is registered
    urlValue,        \* urlInput.value
    qualityChecked,  \* some input[name="quality"] is checked
    event,           \* the last submit event handled, the n-th: [n, target,
                     \* defaultPrevented, created], created counting its showAlert calls
    navigated,       \* a submission went through: the page is being left
    \* clipboard
    hasClipboard,    \* navigator.clipboard is present
    isSecureContext, \* window.isSecureContext
    attempts,        \* one record per copyToClipboard call
    body,            \* the text areas that are children of document.body
    consoleErrors,   \* number of console.error calls
    \* progress bar
    hasElement,      \* document.getElementById(elementId) finds an element
    anim,            \* the closure of one animateProgressBar call
    width            \* element.style.width in percent, as a fraction [num, den]

pureVars  == <<call, ret>>
domVars   == <<hasContainer, alerts, containerKids, timers, loaded>>
formVars  == <<hasForm, hasUrlInput, hasDownloadForm, analyzeListener,
               downloadListener, urlValue, qualityChecked, event, navigated>>
clipVars  == <<hasClipboard, isSecureContext, attempts, body, consoleErrors>>
animVars  == <<hasElement, anim, width>>

vars == <<pureVars, now, domVars, formVars, clipVars, animVars>>

\* ret holds no value, or the one value returned
NoValue == <<>>

-----------------------------------------------------------------------------
(* Strings                                                                 *)

RECURSIVE Repeat(_, _)
Repeat(c, n) == IF n <= 0 THEN <<>> ELSE <<c>> \o Repeat(c, n - 1)

DigitChar(d) == CASE d = 0 -> "0" [] d = 1 -> "1" [] d = 2 -> "2" [] d = 3 -> "3"
                  [] d = 4 -> "4" [] d = 5 -> "5" [] d = 6 -> "6" [] d = 7 -> "7"
                  [] d = 8 -> "8" [] d = 9 -> "9"

\* Number.prototype.toString() of a non-negative integer
RECURSIVE toString(_)
toString(n) == IF n < 10 THEN <<DigitChar(n)>>
               ELSE toString(n \div 10) \o <<DigitChar(n % 10)>>

\* String.prototype.padStart(targetLength, padChar)
padStart(s, targetLength, padChar) == Repeat(padChar, targetLength - Len(s)) \o s

-----------------------------------------------------------------------------
(* formatDuration                                                          *)

formatDurationMinutesOfDay(seconds) ==
    LET hours   == seconds \div 3600
        minutes == seconds \div 60
        secs    == seconds % 60
    IN  IF hours > 0
        THEN toString(hours) \o <<":">> \o padStart(toString(minutes), 2, "0")
                 \o <<":">> \o padStart(toString(secs), 2, "0")
        ELSE toString(minutes) \o <<":">> \o padStart(toString(secs), 2, "0")

formatDuration(seconds) ==
    LET hours   == seconds \div 3600
        minutes == (seconds % 3600) \div 60
        secs    == seconds % 60
    IN  IF hours > 0
        THEN toString(hours) \o <<":">> \o padStart(toString(minutes), 2, "0")
                 \o <<":">> \o padStart(toString(secs), 2, "0")
        ELSE toString(minutes) \o <<":">> \o padStart(toString(secs), 2, "0")

-----------------------------------------------------------------------------
(* formatFileSize                                                          *)
(* The argument is a non-negative integer that may exceed 2^31, so it is   *)
(* held as its base-k digits, most significant first, without leading      *)
(* zeros (zero is the empty sequence).  bytes / k^i is then the first      *)
(* digit followed by a base-k fraction, which is exact in a double.        *)

k == 1024

sizes == << <<"B","y","t","e","s">>, <<"K","B">>, <<"M","B">>, <<"G","B">> >>

undefined == <<"u","n","d","e","f","i","n","e","d">>

\* sizes[i] with JavaScript's zero-based index; out of range reads undefined
sizesAt(i) == IF i + 1 \in DOMAIN sizes THEN sizes[i + 1] ELSE undefined

\* Math.floor(Math.log(bytes) / Math.log(k)) for bytes > 0
floorLogK(bytes) == Len(bytes) - 1

\* whether the base-k fraction 0.ds is at least num/den (0 <= num < den)
RECURSIVE FracGE(_, _, _)
FracGE(ds, num, den) ==
    IF num = 0 THEN TRUE
    ELSE IF ds = <<>> THEN FALSE
    ELSE LET q == (num * k) \div den
             r == (num * k) % den
         IN  IF Head(ds) > q THEN TRUE
             ELSE IF Head(ds) < q THEN FALSE
             ELSE FracGE(Tail(ds), r, den)

\* (whole + 0.frac).toFixed(1): the nearest tenth, a tie taking the larger
toFixed1(whole, frac) ==
    LET tenths == Cardinality({j \in 1..10 : FracGE(frac, 2 * j - 1, 20)})
    IN  IF tenths = 10 THEN toString(whole + 1) \o <<".", "0">>
        ELSE toString(whole) \o <<".", DigitChar(tenths)>>

\* parseFloat(s) + '' for s the result of toFixed(1): a zero tenth is dropped
parseFloatString(s) ==
    IF s[Len(s)] = "0" THEN SubSeq(s, 1, Len(s) - 2) ELSE s

formatFileSize(bytes) ==
    IF bytes = <<>> THEN <<"0", " ", "B", "y", "t", "e", "s">>
    ELSE LET i == floorLogK(bytes)
         IN  parseFloatString(toFixed1(Head(bytes), Tail(bytes)))
                 \o <<" ">> \o sizesAt(i)

-----------------------------------------------------------------------------
(* isValidYouTubeUrl                                                       *)
(* The regular expression is evaluated as the set of positions the match   *)
(* can have reached after each of its parts, starting at position 1 (^).   *)

S_http     == <<"h","t","t","p",":","/","/">>
S_https    == <<"h","t","t","p","s",":","/","/">>
S_www      == <<"w","w","w",".">>
S_youtube  == <<"y","o","u","t","u","b","e">>
S_youtu    == <<"y","o","u","t","u">>
S_nocookie == <<"y","o","u","t","u","b","e","-","n","o","c","o","o","k","i","e">>
S_dot      == <<".">>
S_com      == <<"c","o","m">>
S_be       == <<"b","e">>
S_slash    == <<"/">>
S_watch    == <<"w","a","t","c","h","?","v","=">>
S_embed    == <<"e","m","b","e","d","/">>
S_v        == <<"v","/">>
S_qv       == <<"?","v","=">>

LineTerminators == {"\n", "\r"}

\* the literal lit stands in str at position p
MatchLit(str, p, lit) ==
    /\ p + Len(lit) - 1 <= Len(str)
    /\ SubSeq(str, p, p + Len(lit) - 1) = lit

AfterLit(str, P, lit) == {p + Len(lit) : p \in {q \in P : MatchLit(str, q, lit)}}

AfterAlt(str, P, lits) == UNION {AfterLit(str, P, lit) : lit \in lits}

\* .+  : one or more characters other than line terminators
AfterDotPlus(str, P) ==
    {q \in 2..(Len(str) + 1) :
        \E p \in P : /\ p < q
                     /\ \A i \in p..(q - 1) : str[i] \notin LineTerminators}

\* [^&=%\?]
IdClass(c) == c \notin {"&", "=", "%", "?"}

IdLength == 11

\* [^&=%\?]{11}
MatchId(str, P) ==
    \E p \in P : /\ p + IdLength - 1 <= Len(str)
                 /\ \A i \in p..(p + IdLength - 1) : IdClass(str[i])

isValidYouTubeUrl(url) ==
    LET p0 == {1}
        p1 == p0 \cup AfterAlt(url, p0, {S_http, S_https})
        p2 == p1 \cup AfterLit(url, p1, S_www)
        p3 == AfterAlt(url, p2, {S_youtube, S_youtu, S_nocookie})
        p4 == AfterLit(url, p3, S_dot)
        p5 == AfterAlt(url, p4, {S_com, S_be})
        p6 == AfterLit(url, p5, S_slash)
        p7 == p6 \cup AfterAlt(url, p6, {S_watch, S_embed, S_v})
                 \cup AfterLit(url, AfterDotPlus(url, p6), S_qv)
    IN  MatchId(url, p7)

-----------------------------------------------------------------------------
(* Alert presenter and timers                                              *)

FadeDelay == 5000

RemoveDelay == 300

\* bound on the number of alert nodes created by showAlert in one behaviour
MaxAlerts == 2

ScriptAlerts == {a \in DOMAIN alerts : alerts[a].origin = "script"}

Without(seq, x) == SelectSeq(seq, LAMBDA y : y # x)

\* setTimeout(callback, delay)
setTimeout(kind, a, delay) == [kind |-> kind, alert |-> a, due |-> now + delay]

\* showAlert(message, type): the node is built, prepended to .container when
\* there is one, and its fade is scheduled
showAlert(message, type) ==
    LET a    == Len(alerts) + 1
        node == [origin    |-> "script",
                 className |-> IF type = "error" THEN "danger" ELSE "success",
                 message   |-> message,
                 hasClose  |-> TRUE,
                 inPage    |-> hasContainer,
                 opacity   |-> "",
                 removed   |-> FALSE,
                 stamp     |-> now]
    IN  /\ alerts' = Append(alerts, node)
        /\ containerKids' = IF hasContainer THEN <<a>> \o containerKids
                            ELSE containerKids
        /\ timers' = timers \cup {setTimeout("fade", a, FadeDelay)}

\* showAlert called on its own (it is a global function)
ShowAlertCall(message, type) ==
    /\ Cardinality(ScriptAlerts) < MaxAlerts
    /\ showAlert(message, type)
    /\ UNCHANGED <<pureVars, now, hasContainer, loaded, formVars, clipVars, animVars>>

\* a timer may run once its delay has passed, earlier timers first
Due(t) == /\ t \in timers
          /\ now >= t.due
          /\ \A u \in timers : u.due >= t.due

FadeTimerRemoveAtOnce(t) ==
    /\ Due(t)
    /\ t.kind = "fade"
    /\ alerts' = [alerts EXCEPT ![t.alert].opacity = "0", ![t.alert].stamp = now]
    /\ timers' = (timers \ {t}) \cup {setTimeout("remove", t.alert, 0)}
    /\ UNCHANGED <<pureVars, now, hasContainer, containerKids, loaded,
                   formVars, clipVars, animVars>>

\* the outer callback: alert.style.opacity = '0'; setTimeout(remove, 300)
FadeTimer(t) ==
    /\ Due(t)
    /\ t.kind = "fade"
    /\ alerts' = [alerts EXCEPT ![t.alert].opacity = "0", ![t.alert].stamp = now]
    /\ timers' = (timers \ {t}) \cup {setTimeout("remove", t.alert, RemoveDelay)}
    /\ UNCHANGED <<pureVars, now, hasContainer, containerKids, loaded,
                   formVars, clipVars, animVars>>

\* the inner callback: alert.remove(), a no-op on a node that is in no page
RemoveTimer(t) ==
    /\ Due(t)
    /\ t.kind = "remove"
    /\ alerts' = [alerts EXCEPT ![t.alert].inPage = FALSE,
                                ![t.alert].removed = TRUE,
                                ![t.alert].stamp = now]
    /\ containerKids' = Without(containerKids, t.alert)
    /\ timers' = timers \ {t}
    /\ UNCHANGED <<pureVars, now, hasContainer, loaded, formVars, clipVars, animVars>>

\* the user clicks the .btn-close of a displayed alert (data-bs-dismiss="alert")
Dismiss(a) ==
    /\ a \in DOMAIN alerts
    /\ alerts[a].hasClose
    /\ alerts[a].inPage
    /\ alerts' = [alerts EXCEPT ![a].inPage = FALSE]
    /\ containerKids' = Without(containerKids, a)
    /\ UNCHANGED <<pureVars, now, hasContainer, timers, loaded,
                   formVars, clipVars, animVars>>

LoadEveryAlert ==
    /\ ~loaded
    /\ loaded' = TRUE
    /\ analyzeListener' = (hasForm /\ hasUrlInput)
    /\ downloadListener' = hasDownloadForm
    /\ timers' = timers \cup
           {setTimeout("fade", a, FadeDelay) :
                a \in {b \in DOMAIN alerts : alerts[b].inPage}}
    /\ UNCHANGED <<pureVars, now, hasContainer, alerts, containerKids,
                   hasForm, hasUrlInput, hasDownloadForm, urlValue, qualityChecked,
                   event, navigated, clipVars, animVars>>

\* the DOMContentLoaded listener: the submit listeners are registered and the
\* alerts in the page that have no .btn-close get their fade scheduled
Load ==
    /\ ~loaded
    /\ loaded' = TRUE
    /\ analyzeListener' = (hasForm /\ hasUrlInput)
    /\ downloadListener' = hasDownloadForm
    /\ timers' = timers \cup
           {setTimeout("fade", a, FadeDelay) :
                a \in {b \in DOMAIN alerts : alerts[b].inPage /\ ~alerts[b].hasClose}}
    /\ UNCHANGED <<pureVars, now, hasContainer, alerts, containerKids,
                   hasForm, hasUrlInput, hasDownloadForm, urlValue, qualityChecked,
                   event, navigated, clipVars, animVars>>

\* what the clock is still needed for: the latest deadline that is pending
Horizon ==
    LET dues == {t.due : t \in timers}
                  \cup (IF anim.frameRequested THEN {anim.startTime + anim.duration}
                        ELSE {})
    IN  IF dues = {} THEN 0 ELSE CHOOSE m \in dues : \A d \in dues : d <= m

\* time passes until the next pending callback is due
NextDue == CHOOSE m \in {t.due : t \in timers} : \A t \in timers : m <= t.due

Elapse ==
    /\ timers # {}
    /\ now < NextDue
    /\ now' = NextDue
    /\ UNCHANGED <<pureVars, domVars, formVars, clipVars, animVars>>

\* time passes
Tick(d) ==
    /\ now < Horizon
    /\ now' = now + d
    /\ UNCHANGED <<pureVars, domVars, formVars, clipVars, animVars>>

-----------------------------------------------------------------------------
(* Submit handlers                                                         *)

WhiteSpace == {" ", "\t", "\n", "\r"}

\* String.prototype.trim()
RECURSIVE trim(_)
trim(s) == IF s = <<>> THEN s
           ELSE IF Head(s) \in WhiteSpace THEN trim(Tail(s))
           ELSE IF s[Len(s)] \in WhiteSpace THEN trim(SubSeq(s, 1, Len(s) - 1))
           ELSE s

NoEvent == [n |-> 0, target |-> "none", defaultPrevented |-> FALSE, created |-> 0]

\* the user edits the URL field
SetUrl(v) ==
    /\ hasUrlInput
    /\ ~navigated
    /\ urlValue' = v
    /\ UNCHANGED <<pureVars, now, domVars, hasForm, hasUrlInput, hasDownloadForm,
                   analyzeListener, downloadListener, qualityChecked, event,
                   navigated, clipVars, animVars>>

\* the user picks a quality radio button
CheckQuality ==
    /\ hasDownloadForm
    /\ ~navigated
    /\ ~qualityChecked
    /\ qualityChecked' = TRUE
    /\ UNCHANGED <<pureVars, now, domVars, hasForm, hasUrlInput, hasDownloadForm,
                   analyzeListener, downloadListener, urlValue, event,
                   navigated, clipVars, animVars>>

\* e.preventDefault(); showAlert(message, 'error'); return
Reject(target, message) ==
    /\ Cardinality(ScriptAlerts) < MaxAlerts
    /\ event' = [n |-> event.n + 1, target |-> target,
                 defaultPrevented |-> TRUE, created |-> 1]
    /\ showAlert(message, "error")
    /\ UNCHANGED navigated

\* the handler returns without preventDefault: the form is submitted
Accept(target) ==
    /\ event' = [n |-> event.n + 1, target |-> target,
                 defaultPrevented |-> FALSE, created |-> 0]
    /\ navigated' = TRUE
    /\ UNCHANGED <<alerts, containerKids, timers>>

SubmitAnalyzeEmptyOnly ==
    /\ analyzeListener
    /\ ~navigated
    /\ LET url == trim(urlValue)
       IN  IF url = <<>> THEN Reject("analyze", "Please enter a YouTube URL")
           ELSE Accept("analyze")
    /\ UNCHANGED <<pureVars, now, hasContainer, loaded, hasForm, hasUrlInput,
                   hasDownloadForm, analyzeListener, downloadListener, urlValue,
                   qualityChecked, clipVars, animVars>>

\* the submit listener of the analyze form
SubmitAnalyze ==
    /\ analyzeListener
    /\ ~navigated
    /\ LET url == trim(urlValue)
       IN  IF url = <<>> THEN Reject("analyze", "Please enter a YouTube URL")
           ELSE IF ~isValidYouTubeUrl(url)
                THEN Reject("analyze", "Please enter a valid YouTube URL")
                ELSE Accept("analyze")
    /\ UNCHANGED <<pureVars, now, hasContainer, loaded, hasForm, hasUrlInput,
                   hasDownloadForm, analyzeListener, downloadListener, urlValue,
                   qualityChecked, clipVars, animVars>>

SubmitDownloadAlertOnly ==
    /\ downloadListener
    /\ ~navigated
    /\ IF ~qualityChecked
       THEN /\ Cardinality(ScriptAlerts) < MaxAlerts
            /\ event' = [n |-> event.n + 1, target |-> "download",
                         defaultPrevented |-> FALSE, created |-> 1]
            /\ showAlert("Please select a quality option", "error")
            /\ navigated' = TRUE
       ELSE Accept("download")
    /\ UNCHANGED <<pureVars, now, hasContainer, loaded, hasForm, hasUrlInput,
                   hasDownloadForm, analyzeListener, downloadListener, urlValue,
                   qualityChecked, clipVars, animVars>>

\* the submit listener of the download form
SubmitDownload ==
    /\ downloadListener
    /\ ~navigated
    /\ IF ~qualityChecked THEN Reject("download", "Please select a quality option")
       ELSE Accept("download")
    /\ UNCHANGED <<pureVars, now, hasContainer, loaded, hasForm, hasUrlInput,
                   hasDownloadForm, analyzeListener, downloadListener, urlValue,
                   qualityChecked, clipVars, animVars>>

-----------------------------------------------------------------------------
(* Clipboard helper                                                        *)

\* what document.execCommand('copy') can do: copy and return true, not copy
\* and return false, or throw
ExecOutcomes == {"copied", "returnedFalse", "threw"}

NewAttempt == [modernCalled |-> FALSE, promise |-> "none", fallbackRuns |-> 0,
               exec |-> "none", shown |-> <<>>]

fallbackRemoveInsideTry(i, att, logged, outcome) ==
    LET textArea == [owner |-> i]
        body1    == Append(body, textArea)
        a        == Len(alerts) + 1
    IN  /\ IF outcome = "threw"
           THEN /\ consoleErrors' = consoleErrors + logged + 1
                /\ showAlert("Failed to copy URL", "error")
                /\ body' = body1
           ELSE /\ consoleErrors' = consoleErrors + logged
                /\ showAlert("URL copied to clipboard!", "success")
                /\ body' = Without(body1, textArea)
        /\ attempts' = [att EXCEPT ![i].fallbackRuns = @ + 1,
                                   ![i].exec = outcome,
                                   ![i].shown = Append(@, a)]

\* fallbackCopyTextToClipboard(text), run for attempt i after `logged`
\* console.error calls of its caller, with execCommand behaving as `outcome`
fallbackCopyTextToClipboard(i, att, logged, outcome) ==
    LET textArea == [owner |-> i]
        body1    == Append(body, textArea)
        a        == Len(alerts) + 1
    IN  /\ IF outcome = "threw"
           THEN /\ consoleErrors' = consoleErrors + logged + 1
                /\ showAlert("Failed to copy URL", "error")
           ELSE /\ consoleErrors' = consoleErrors + logged
                /\ showAlert("URL copied to clipboard!", "success")
        /\ attempts' = [att EXCEPT ![i].fallbackRuns = @ + 1,
                                   ![i].exec = outcome,
                                   ![i].shown = Append(@, a)]
        /\ body' = Without(body1, textArea)

\* copyToClipboard(text)
CopyToClipboard ==
    /\ Len(attempts) < MaxAlerts
    /\ LET i   == Len(attempts) + 1
           att == Append(attempts, NewAttempt)
       IN  IF hasClipboard /\ isSecureContext
           THEN /\ attempts' = [att EXCEPT ![i].modernCalled = TRUE,
                                           ![i].promise = "pending"]
                /\ UNCHANGED <<alerts, containerKids, timers, body, consoleErrors>>
           ELSE \E outcome \in ExecOutcomes :
                    fallbackCopyTextToClipboard(i, att, 0, outcome)
    /\ UNCHANGED <<pureVars, now, hasContainer, loaded, formVars,
                   hasClipboard, isSecureContext, animVars>>

\* navigator.clipboard.writeText(text) is fulfilled: the then-callback
WriteFulfilled(i) ==
    /\ i \in DOMAIN attempts
    /\ attempts[i].promise = "pending"
    /\ attempts' = [attempts EXCEPT ![i].promise = "fulfilled",
                                    ![i].shown = Append(@, Len(alerts) + 1)]
    /\ showAlert("URL copied to clipboard!", "success")
    /\ UNCHANGED <<pureVars, now, hasContainer, loaded, formVars,
                   hasClipboard, isSecureContext, body, consoleErrors, animVars>>

\* navigator.clipboard.writeText(text) is rejected: the catch-callback
WriteRejected(i, outcome) ==
    /\ i \in DOMAIN attempts
    /\ attempts[i].promise = "pending"
    /\ fallbackCopyTextToClipboard(i, [attempts EXCEPT ![i].promise = "rejected"],
                                   1, outcome)
    /\ UNCHANGED <<pureVars, now, hasContainer, loaded, formVars,
                   hasClipboard, isSecureContext, animVars>>

-----------------------------------------------------------------------------
(* Progress animation                                                      *)

DefaultDuration == 1000

NoWidth == [num |-> -1, den |-> 0]

IdleAnim == [state |-> "idle", targetWidth |-> 0, duration |-> 0, startTime |-> 0,
             frameRequested |-> FALSE, lastFrame |-> -1]

progressUnclamped(elapsed, duration) == [num |-> elapsed, den |-> duration]

\* Math.min(elapsed / duration, 1) as a fraction over duration
progress(elapsed, duration) ==
    [num |-> IF elapsed < duration THEN elapsed ELSE duration, den |-> duration]

\* animateProgressBar(elementId, targetWidth, duration)
AnimateProgressBar(targetWidth, duration) ==
    /\ anim.state = "idle"
    /\ IF ~hasElement
       THEN anim' = [anim EXCEPT !.state = "returned"]
       ELSE anim' = [state |-> "running", targetWidth |-> targetWidth,
                     duration |-> duration, startTime |-> now,
                     frameRequested |-> TRUE, lastFrame |-> -1]
    /\ UNCHANGED <<pureVars, now, domVars, formVars, clipVars, hasElement, width>>

\* animate(currentTime), the frame callback; the frame's timestamp is the clock
Animate ==
    /\ anim.frameRequested
    /\ LET startWidth   == 0
           currentTime  == now
           elapsed      == currentTime - anim.startTime
           prog         == progress(elapsed, anim.duration)
       IN  /\ width' = [num |-> startWidth * prog.den
                                  + (anim.targetWidth - startWidth) * prog.num,
                        den |-> prog.den]
           /\ anim' = [anim EXCEPT !.frameRequested = (prog.num < prog.den),
                                   !.lastFrame = currentTime,
                                   !.state = IF prog.num < prog.den THEN "running"
                                             ELSE "finished"]
    /\ UNCHANGED <<pureVars, now, domVars, formVars, clipVars, hasElement>>

-----------------------------------------------------------------------------
(* Inputs and bounds                                                       *)

\* formatDuration is called with every second count up to MaxSeconds
MaxSeconds == 7322

SecondsInputs == (0..MaxSeconds) \cup {35999, 36000, 86399, 360000}

\* formatFileSize is called with byte counts of up to MaxDigits base-k digits
MaxDigits == 5

DigitSamples == {0, 1, 51, 52, 256, 512, 1023}

BytesInputs ==
    {<<>>} \cup UNION {{ds \in [1..n -> DigitSamples] : ds[1] # 0} : n \in 1..MaxDigits}

DurationCalls == {[fn |-> "formatDuration", arg |-> s] : s \in SecondsInputs}

FileSizeCalls == {[fn |-> "formatFileSize", arg |-> b] : b \in BytesInputs}

\* the validator is called with URLs put together from these parts
MaxIdLen == 12

S_ftp      == <<"f","t","p",":","/","/">>
S_vimeo    == <<"v","i","m","e","o">>
S_org      == <<"o","r","g">>
S_playlist == <<"p","l","a","y","l","i","s","t">> \o S_qv
S_channel  == <<"c","h","a","n","n","e","l","/">>
S_user     == <<"u","s","e","r","/">>
S_tail     == <<"&","t","=","1","0">>

Schemes   == {<<>>, S_http, S_https, S_ftp}
Hosts     == {S_youtube, S_youtu, S_nocookie, S_vimeo}
Suffixes  == {S_com, S_be, S_org}
Segments  == {<<>>, S_watch, S_embed, S_v, S_playlist, S_channel, S_user}
Ids       == {Repeat("a", n) : n \in 0..MaxIdLen}
                \cup {Repeat("a", 5) \o <<"&">> \o Repeat("a", 5),
                      Repeat("-", 10) \o <<"_">>}
Tails     == {<<>>, S_tail}

UrlParts == [scheme : Schemes, www : {<<>>, S_www}, host : Hosts, suffix : Suffixes,
             seg : Segments, id : Ids, tail : Tails]

UrlOf(p) == p.scheme \o p.www \o p.host \o S_dot \o p.suffix \o S_slash
                \o p.seg \o p.id \o p.tail

ValidatorCalls ==
    {[fn |-> "isValidYouTubeUrl", arg |-> UrlOf(p), parts |-> p] : p \in UrlParts}

\* what the user may have typed into the URL field
GoodUrl == S_https \o S_www \o S_youtube \o S_dot \o S_com \o S_slash
               \o S_watch \o Repeat("a", 11)

UrlFieldValues ==
    {<<>>, <<" ", " ">>, GoodUrl, <<" ">> \o GoodUrl \o <<" ", "\n">>,
     <<"a", "b", "c">>, S_https \o S_vimeo \o S_dot \o S_com \o S_slash \o Repeat("a", 11),
     <<" ">> \o S_youtu \o S_dot \o S_be \o S_slash \o Repeat("a", 4)}

\* alerts rendered into the page by the server
MaxPageAlerts == 2

\* alerts created by showAlert in a page that has served alerts
MaxLateAlerts == 1

PageAlert(close) ==
    [origin |-> "page", className |-> "danger", message |-> "flash",
     hasClose |-> close, inPage |-> TRUE, opacity |-> "", removed |-> FALSE,
     stamp |-> 0]

PageAlertSeqs ==
    UNION {[1..n -> {PageAlert(TRUE), PageAlert(FALSE)}] : n \in 0..MaxPageAlerts}

Ids1(n) == [i \in 1..n |-> i]

TimerSteps == {2500}

FrameSteps == {16, 250}

Targets == {0, 40, 100}

Durations == {DefaultDuration, 700}

-----------------------------------------------------------------------------
(* Specifications                                                          *)

PureOff == call = [fn |-> "none"] /\ ret = NoValue

DomOff  == /\ hasContainer = TRUE /\ alerts = <<>> /\ containerKids = <<>>
           /\ timers = {} /\ loaded = FALSE

FormOff == /\ hasForm = FALSE /\ hasUrlInput = FALSE /\ hasDownloadForm = FALSE
           /\ analyzeListener = FALSE /\ downloadListener = FALSE
           /\ urlValue = <<>> /\ qualityChecked = FALSE
           /\ event = NoEvent /\ navigated = FALSE

ClipOff == /\ hasClipboard = FALSE /\ isSecureContext = FALSE
           /\ attempts = <<>> /\ body = <<>> /\ consoleErrors = 0

AnimOff == hasElement = FALSE /\ anim = IdleAnim /\ width = NoWidth

\* --- the formatters
CallFormatDuration ==
    /\ call.fn = "formatDuration"
    /\ ret = NoValue
    /\ ret' = <<formatDuration(call.arg)>>
    /\ UNCHANGED <<call, now, domVars, formVars, clipVars, animVars>>

CallFormatFileSize ==
    /\ call.fn = "formatFileSize"
    /\ ret = NoValue
    /\ ret' = <<formatFileSize(call.arg)>>
    /\ UNCHANGED <<call, now, domVars, formVars, clipVars, animVars>>

InitDuration == /\ call \in DurationCalls /\ ret = NoValue
                /\ now = 0 /\ DomOff /\ FormOff /\ ClipOff /\ AnimOff

NextDuration == CallFormatDuration

SpecDuration == InitDuration /\ [][NextDuration]_vars

InitFileSize == /\ call \in FileSizeCalls /\ ret = NoValue
                /\ now = 0 /\ DomOff /\ FormOff /\ ClipOff /\ AnimOff

NextFileSize == CallFormatFileSize

SpecFileSize == InitFileSize /\ [][NextFileSize]_vars

\* --- the validator
CallIsValidYouTubeUrl ==
    /\ call.fn = "isValidYouTubeUrl"
    /\ ret = NoValue
    /\ ret' = <<isValidYouTubeUrl(call.arg)>>
    /\ UNCHANGED <<call, now, domVars, formVars, clipVars, animVars>>

InitValidator == /\ call \in ValidatorCalls /\ ret = NoValue
                 /\ now = 0 /\ DomOff /\ FormOff /\ ClipOff /\ AnimOff

NextValidator == CallIsValidYouTubeUrl

SpecValidator == InitValidator /\ [][NextValidator]_vars

\* --- the two forms
InitForms ==
    /\ PureOff /\ now = 0 /\ ClipOff /\ AnimOff
    /\ hasContainer \in BOOLEAN
    /\ alerts = <<>> /\ containerKids = <<>> /\ timers = {} /\ loaded = FALSE
    /\ hasForm \in BOOLEAN /\ hasUrlInput \in BOOLEAN /\ hasDownloadForm \in BOOLEAN
    /\ analyzeListener = FALSE /\ downloadListener = FALSE
    /\ urlValue \in (IF hasUrlInput THEN UrlFieldValues ELSE {<<>>})
    /\ qualityChecked \in (IF hasDownloadForm THEN BOOLEAN ELSE {FALSE})
    /\ event = NoEvent /\ navigated = FALSE

NextForms ==
    \/ Load
    \/ \E v \in UrlFieldValues : SetUrl(v)
    \/ CheckQuality
    \/ SubmitAnalyze
    \/ SubmitDownload

SpecForms == InitForms /\ [][NextForms]_vars

\* --- the alerts created by showAlert and their timers
InitAlerts ==
    /\ PureOff /\ now = 0 /\ FormOff /\ ClipOff /\ AnimOff
    /\ hasContainer \in BOOLEAN
    /\ alerts = <<>> /\ containerKids = <<>> /\ timers = {} /\ loaded = FALSE

NextAlerts ==
    \/ ShowAlertCall("message", "error")
    \/ \E d \in TimerSteps : Tick(d)
    \/ Elapse
    \/ \E t \in timers : FadeTimer(t)
    \/ \E t \in timers : RemoveTimer(t)
    \/ \E a \in DOMAIN alerts : Dismiss(a)

\* the event loop runs every callback that is due, and time passes
FairAlerts ==
    /\ WF_vars(\E d \in TimerSteps : Tick(d))
    /\ WF_vars(\E t \in timers : FadeTimer(t))
    /\ WF_vars(\E t \in timers : RemoveTimer(t))

SpecAlerts == InitAlerts /\ [][NextAlerts]_vars /\ FairAlerts

\* --- the alerts of the served page, and those created after it
InitLoad ==
    /\ PureOff /\ now = 0 /\ FormOff /\ ClipOff /\ AnimOff
    /\ hasContainer \in BOOLEAN
    /\ alerts \in PageAlertSeqs
    /\ containerKids = (IF hasContainer THEN Ids1(Len(alerts)) ELSE <<>>)
    /\ timers = {} /\ loaded = FALSE

NextLoad ==
    \/ Load
    \/ Cardinality(ScriptAlerts) < MaxLateAlerts /\ ShowAlertCall("message", "info")
    \/ \E d \in TimerSteps : Tick(d)
    \/ \E t \in timers : FadeTimer(t)
    \/ \E t \in timers : RemoveTimer(t)
    \/ \E a \in DOMAIN alerts : Dismiss(a)

SpecLoad == InitLoad /\ [][NextLoad]_vars

\* --- the clipboard helper
InitClipboard ==
    /\ PureOff /\ now = 0 /\ FormOff /\ AnimOff
    /\ hasContainer \in BOOLEAN
    /\ alerts = <<>> /\ containerKids = <<>> /\ timers = {} /\ loaded = FALSE
    /\ hasClipboard \in BOOLEAN /\ isSecureContext \in BOOLEAN
    /\ attempts = <<>> /\ body = <<>> /\ consoleErrors = 0

NextClipboard ==
    \/ CopyToClipboard
    \/ \E i \in DOMAIN attempts : WriteFulfilled(i)
    \/ \E i \in DOMAIN attempts, outcome \in ExecOutcomes : WriteRejected(i, outcome)

SpecClipboard == InitClipboard /\ [][NextClipboard]_vars

\* --- the progress animation
InitAnim ==
    /\ PureOff /\ now \in {0, 40} /\ DomOff /\ FormOff /\ ClipOff
    /\ hasElement \in BOOLEAN /\ anim = IdleAnim /\ width = NoWidth

NextAnim ==
    \/ \E targetWidth \in Targets, duration \in Durations :
           AnimateProgressBar(targetWidth, duration)
    \/ Animate
    \/ \E d \in FrameSteps : Tick(d)

\* the browser keeps delivering frames, and time passes
FairAnim == WF_vars(Animate) /\ WF_vars(\E d \in FrameSteps : Tick(d))

SpecAnim == InitAnim /\ [][NextAnim]_vars /\ FairAnim

-----------------------------------------------------------------------------
(* Reading a formatted string back                                         *)

Numerals == {DigitChar(d) : d \in 0..9}

DigitValue(c) == CHOOSE d \in 0..9 : DigitChar(d) = c

IsNumeral(s) == Len(s) >= 1 /\ \A i \in DOMAIN s : s[i] \in Numerals

RECURSIVE NumeralValue(_)
NumeralValue(s) ==
    IF s = <<>> THEN 0
    ELSE 10 * NumeralValue(SubSeq(s, 1, Len(s) - 1)) + DigitValue(s[Len(s)])

\* the fields of s between the separators sep
RECURSIVE Split(_, _)
Split(s, sep) ==
    IF \A i \in DOMAIN s : s[i] # sep THEN <<s>>
    ELSE LET i == CHOOSE j \in DOMAIN s : s[j] = sep /\ \A h \in 1..(j - 1) : s[h] # sep
         IN  <<SubSeq(s, 1, i - 1)>> \o Split(SubSeq(s, i + 1, Len(s)), sep)

Range(f) == {f[x] : x \in DOMAIN f}

-----------------------------------------------------------------------------
(* Claims about the formatters (SpecDuration, SpecFileSize)                *)

DurationReturned == call.fn = "formatDuration" /\ ret # NoValue

DurationExact(s, r) ==
    LET f == Split(r, ":")
    IN  /\ \A i \in DOMAIN f : IsNumeral(f[i])
        /\ Len(f[1]) = 1 \/ f[1][1] # "0"
        /\ IF s < 3600
           THEN /\ Len(f) = 2
                /\ Len(f[2]) = 2
                /\ NumeralValue(f[2]) \in 0..59
                /\ 60 * NumeralValue(f[1]) + NumeralValue(f[2]) = s
           ELSE /\ Len(f) = 3
                /\ Len(f[2]) = 2 /\ Len(f[3]) = 2
                /\ NumeralValue(f[2]) \in 0..59
                /\ NumeralValue(f[3]) \in 0..59
                /\ 3600 * NumeralValue(f[1]) + 60 * NumeralValue(f[2])
                       + NumeralValue(f[3]) = s

\* C7: formatDuration returns for every second count s >= 0, as M:SS below an
\* hour and H:MM:SS from an hour on, the minutes of the hours form and the
\* seconds padded to two digits and within 0..59, the fields adding up to s;
\* 0 gives "0:00", 65 gives "1:05" and 3661 gives "1:01:01".
C7_DurationExact ==
    DurationReturned =>
        /\ DurationExact(call.arg, ret[1])
        /\ call.arg = 0 => ret[1] = <<"0", ":", "0", "0">>
        /\ call.arg = 65 => ret[1] = <<"1", ":", "0", "5">>
        /\ call.arg = 3661 => ret[1] = <<"1", ":", "0", "1", ":", "0", "1">>

C7_Witness ==
    /\ DurationReturned
    /\ call.arg = 3661
    /\ ret[1] = <<"1", ":", "0", "1", ":", "0", "1">>

FileSizeReturned == call.fn = "formatFileSize" /\ ret # NoValue

\* a magnitude with at most one decimal place
IsMagnitude(m) ==
    LET f == Split(m, ".")
    IN  /\ Len(f) \in {1, 2}
        /\ IsNumeral(f[1])
        /\ Len(f) = 2 => (IsNumeral(f[2]) /\ Len(f[2]) = 1)

\* the largest of the four units that does not exceed the byte count
LargestUnit(bytes) ==
    IF bytes = <<>> THEN sizes[1]
    ELSE IF Len(bytes) > Len(sizes) THEN sizes[Len(sizes)] ELSE sizes[Len(bytes)]

\* C8: formatFileSize returns, for every byte count >= 0, a magnitude with at
\* most one decimal place, a space and one of the labels Bytes, KB, MB, GB,
\* the largest unit that does not exceed the input; 0 gives "0 Bytes", 1024
\* gives "1 KB" and 1536 gives "1.5 KB"; no label is missing or undefined.
C8_FileSizeLabelled ==
    FileSizeReturned =>
        LET f == Split(ret[1], " ")
        IN  /\ Len(f) = 2
            /\ IsMagnitude(f[1])
            /\ f[2] \in Range(sizes)
            /\ f[2] = LargestUnit(call.arg)
            /\ call.arg = <<>> => ret[1] = <<"0", " ", "B", "y", "t", "e", "s">>
            /\ call.arg = <<1, 0>> => ret[1] = <<"1", " ", "K", "B">>
            /\ call.arg = <<1, 512>> => ret[1] = <<"1", ".", "5", " ", "K", "B">>

-----------------------------------------------------------------------------
(* Claims about the validator (SpecValidator)                              *)

ValidatorReturned == call.fn = "isValidYouTubeUrl" /\ ret # NoValue

VideoSegments == {<<>>, S_watch, S_embed, S_v, S_playlist}

DocumentedPrefix(p) ==
    /\ p.scheme \in {<<>>, S_http, S_https}
    /\ p.host \in {S_youtube, S_youtu, S_nocookie}
    /\ p.suffix \in {S_com, S_be}

\* the documented shape: prefix, optional video segment, 11-character id
DocumentedShape(p) ==
    /\ DocumentedPrefix(p)
    /\ p.seg \in VideoSegments
    /\ Len(p.id) = IdLength
    /\ \A i \in DOMAIN p.id : IdClass(p.id[i])

\* no 11-character id where one is expected: a channel or user path after
\* the host, or a video segment followed by fewer than 11 characters
LacksVideoId(p) ==
    /\ DocumentedPrefix(p)
    /\ \/ p.seg \in {S_channel, S_user}
       \/ p.seg \in VideoSegments /\ Len(p.id) < IdLength /\ p.tail = <<>>

\* C6: isValidYouTubeUrl returns true for every string of the documented
\* shape and false for every string without an 11-character video id in the
\* expected position (a channel path, an id shorter than 11 characters).
C6_ValidatorExact ==
    ValidatorReturned =>
        /\ DocumentedShape(call.parts) => ret[1] = TRUE
        /\ LacksVideoId(call.parts) => ret[1] = FALSE

-----------------------------------------------------------------------------
(* Claims about the submit handlers (SpecForms)                            *)

InPage == {a \in DOMAIN alerts : alerts[a].inPage}

\* this step handled a submit event of the form `target`
Submitted(target) == event'.n # event.n /\ event'.target = target

\* this step prevented the default submission and showed exactly one alert,
\* an error banner, which is in the page when the page has a .container
RejectedWithOneAlert ==
    /\ event'.defaultPrevented
    /\ ~navigated'
    /\ event'.created = 1
    /\ Len(alerts') = Len(alerts) + 1
    /\ SubSeq(alerts', 1, Len(alerts)) = alerts
    /\ alerts'[Len(alerts')].className = "danger"
    /\ alerts'[Len(alerts')].inPage = hasContainer
    /\ hasContainer => containerKids' = <<Len(alerts')>> \o containerKids

\* C1: a submit of the analyze form whose URL field is, once trimmed, empty
\* or rejected by isValidYouTubeUrl has its default prevented and produces
\* exactly one alert.
C1_AnalyzeRejects ==
    [][(/\ Submitted("analyze")
        /\ \/ trim(urlValue) = <<>>
           \/ ~isValidYouTubeUrl(trim(urlValue)))
       => RejectedWithOneAlert]_vars

C1_Witness ==
    /\ event.target = "analyze"
    /\ event.defaultPrevented
    /\ Len(alerts) = 2
    /\ alerts[1].message = "Please enter a YouTube URL"
    /\ alerts[2].message = "Please enter a valid YouTube URL"
    /\ InPage = {1, 2}

\* C2: a submit of the download form while no quality radio is checked has
\* its default prevented and produces exactly one alert.
C2_DownloadRejects ==
    [][(Submitted("download") /\ ~qualityChecked) => RejectedWithOneAlert]_vars

C2_Witness ==
    /\ event.target = "download"
    /\ event.defaultPrevented
    /\ ~qualityChecked
    /\ Len(alerts) = 1
    /\ alerts[1].message = "Please select a quality option"
    /\ InPage = {1}

-----------------------------------------------------------------------------
(* Claims about the clipboard helper (SpecClipboard)                       *)

ModernAvailable == hasClipboard /\ isSecureContext

\* the alerts shown for an attempt are exactly one, with this class and text
ShowsOnly(att, className, message) ==
    /\ Len(att.shown) = 1
    /\ att.shown[1] \in DOMAIN alerts
    /\ alerts[att.shown[1]].className = className
    /\ alerts[att.shown[1]].message = message

\* C4: when the legacy copy of the fallback fails, by throwing or by its
\* return value, the attempt shows the error alert "Failed to copy URL", no
\* success alert, and the fallback is not run again.
C4_FailureReported ==
    \A i \in DOMAIN attempts :
        attempts[i].exec \in {"threw", "returnedFalse"} =>
            /\ ShowsOnly(attempts[i], "danger", "Failed to copy URL")
            /\ attempts[i].fallbackRuns = 1

\* C5: without the modern clipboard API the modern write is never called and
\* the fallback runs, showing exactly one success alert when the legacy copy
\* succeeds; a modern write that is rejected runs the fallback exactly once;
\* whenever the fallback has returned its text area is out of document.body.
C5_FallbackOnce ==
    /\ body = <<>>
    /\ \A i \in DOMAIN attempts :
         LET att == attempts[i]
         IN  /\ att.modernCalled <=> ModernAvailable
             /\ ~ModernAvailable =>
                   /\ att.promise = "none"
                   /\ att.fallbackRuns = 1
                   /\ att.exec = "copied" =>
                          ShowsOnly(att, "success", "URL copied to clipboard!")
             /\ att.promise = "rejected" =>
                   /\ att.fallbackRuns = 1
                   /\ Len(att.shown) = 1
             /\ att.promise = "pending" => att.fallbackRuns = 0 /\ att.shown = <<>>
             /\ att.promise = "fulfilled" =>
                   /\ att.fallbackRuns = 0
                   /\ ShowsOnly(att, "success", "URL copied to clipboard!")

C5_Witness ==
    /\ ~ModernAvailable
    /\ Len(attempts) = 2
    /\ attempts[1].exec = "threw"
    /\ attempts[2].exec = "copied"
    /\ ShowsOnly(attempts[2], "success", "URL copied to clipboard!")
    /\ body = <<>>

-----------------------------------------------------------------------------
(* Claims about the progress animation (SpecAnim)                          *)

Min(x, y) == IF x < y THEN x ELSE y

\* the width written by the last frame, from its timestamp
AnimSafe ==
    /\ ~hasElement => (width = NoWidth /\ ~anim.frameRequested)
    /\ anim.lastFrame < 0 => width = NoWidth
    /\ anim.lastFrame >= 0 =>
          LET elapsed == anim.lastFrame - anim.startTime
          IN  /\ width.den = anim.duration
              /\ width.num = anim.targetWidth * Min(elapsed, anim.duration)
              /\ 0 <= width.num
              /\ width.num <= anim.targetWidth * width.den
              /\ anim.frameRequested <=> elapsed < anim.duration
    /\ anim.state = "finished" =>
          /\ width.num = anim.targetWidth * width.den
          /\ ~anim.frameRequested

\* C9: one animateProgressBar call on an existing element terminates: every
\* frame writes target * min(elapsed / duration, 1), a width between 0 and
\* the target; a further frame is requested exactly while progress < 1; the
\* last write is the target itself and no frame follows it.  Without the
\* element nothing is written and no frame is requested.
C9_AnimationTerminates ==
    /\ []AnimSafe
    /\ [][anim.state = "finished" => (anim' = anim /\ width' = width)]_vars
    /\ (anim.state = "running") ~> (anim.state = "finished")

C9_Witness ==
    /\ anim.state = "finished"
    /\ anim.targetWidth = 100
    /\ anim.lastFrame - anim.startTime > anim.duration
    /\ width = [num |-> 100 * anim.duration, den |-> anim.duration]

-----------------------------------------------------------------------------
(* Claims about the alert lifecycle (SpecAlerts)                           *)

Faded(a) == alerts[a].opacity = "0"

\* steps of the script on the node a
Creates(a) == a \notin DOMAIN alerts /\ a \in DOMAIN alerts'
Fades(a)   == a \in DOMAIN alerts /\ ~Faded(a) /\ alerts'[a].opacity = "0"
Removes(a) == a \in DOMAIN alerts /\ ~alerts[a].removed /\ alerts'[a].removed

\* the node a leaves the page, whoever takes it out
LeavesPage(a) == a \in DOMAIN alerts /\ alerts[a].inPage /\ ~alerts'[a].inPage

AlertIds == 1..MaxAlerts

\* C3 as stated: an alert is never removed from the page before it has been
\* faded, whatever the user does.
C3_NeverRemovedBeforeFaded ==
    [][\A a \in AlertIds : LeavesPage(a) => Faded(a)]_vars

\* C3 as amended: every alert created by showAlert is displayed when the page
\* has a .container; the script fades it no earlier than 5000 ms after its
\* creation and calls remove() no earlier than 300 ms after the fade, never
\* before it; only a dismissal by hand takes it out of the page earlier; and
\* in the end it is faded, removed by the script and out of the page, whatever
\* the user does and whatever other alerts there are.
C3_Lifecycle ==
    /\ [][\A a \in AlertIds :
            /\ Creates(a) => /\ alerts'[a].inPage = hasContainer
                             /\ alerts'[a].opacity = ""
                             /\ ~alerts'[a].removed
            /\ Fades(a) => /\ now >= alerts[a].stamp + FadeDelay
                           /\ ~alerts[a].removed
            /\ Removes(a) => /\ Faded(a)
                             /\ now >= alerts[a].stamp + RemoveDelay
                             /\ ~alerts'[a].inPage
            /\ LeavesPage(a) => \/ Removes(a)
                                \/ alerts[a].hasClose /\ timers' = timers
            /\ (a \in DOMAIN alerts /\ Faded(a)) => alerts'[a].opacity = "0"
            /\ (a \in DOMAIN alerts /\ ~alerts[a].inPage) => ~alerts'[a].inPage]_vars
    /\ \A a \in AlertIds :
          (a \in DOMAIN alerts) ~>
              (/\ a \in DOMAIN alerts
               /\ Faded(a) /\ alerts[a].removed /\ ~alerts[a].inPage)

\* two alerts at once: the first dismissed by hand and then faded and removed
\* by its timers, the second still displayed
C3_Witness ==
    /\ hasContainer
    /\ Len(alerts) = 2
    /\ alerts[1].removed /\ Faded(1)
    /\ alerts[1].stamp > FadeDelay + RemoveDelay
    /\ alerts[2].inPage /\ ~Faded(2)

-----------------------------------------------------------------------------
(* Claims about the page-load pass (SpecLoad)                              *)

Pending(a, kind) == \E t \in timers : t.alert = a /\ t.kind = kind

\* the fade and the removal of a are scheduled or done
FadeAndRemoveUnderWay(a) ==
    \/ ~Faded(a) /\ ~alerts[a].removed /\ Pending(a, "fade") /\ ~Pending(a, "remove")
    \/ Faded(a) /\ ~alerts[a].removed /\ ~Pending(a, "fade") /\ Pending(a, "remove")
    \/ Faded(a) /\ alerts[a].removed /\ ~Pending(a, "fade") /\ ~Pending(a, "remove")

\* the script has not touched a and is not going to
Untouched(a) ==
    /\ ~Faded(a) /\ ~alerts[a].removed
    /\ ~Pending(a, "fade") /\ ~Pending(a, "remove")

\* C10: the page-load pass schedules fade and removal for exactly the alerts
\* of the served page that have no .btn-close; one that has a .btn-close is
\* never faded or removed by the script; an alert created by showAlert is
\* faded and removed although it has a .btn-close.
C10_LoadPass ==
    \A a \in DOMAIN alerts :
        /\ (alerts[a].origin = "page" /\ alerts[a].hasClose) => Untouched(a)
        /\ (alerts[a].origin = "page" /\ ~alerts[a].hasClose) =>
               IF loaded THEN FadeAndRemoveUnderWay(a) ELSE Untouched(a)
        /\ alerts[a].origin = "script" =>
               (alerts[a].hasClose /\ FadeAndRemoveUnderWay(a))

C10_Witness ==
    /\ loaded
    /\ Len(alerts) = 3
    /\ alerts[1].origin = "page" /\ alerts[1].hasClose /\ alerts[1].inPage
    /\ alerts[2].origin = "page" /\ ~alerts[2].hasClose /\ alerts[2].removed
    /\ alerts[3].origin = "script" /\ alerts[3].removed
    /\ timers = {}

====
